---- MODULE Spec2Model ----
(***************************************************************************)
(* A model of rag_directory/cli.py: the RAGTool class (indexing a          *)
(* directory into documents/embeddings, chunking, retrieval, the chat      *)
(* loop) and main().                                                       *)
(*                                                                         *)
(* Text is a sequence of one-character strings, so that str.split() and    *)
(* ' '.join() are computed and not assumed.  The two Python dicts          *)
(* (self.documents, self.embeddings) are insertion-ordered: each is a      *)
(* sequence of [file_path, value] items.                                   *)
(***************************************************************************)
EXTENDS Integers, Sequences, FiniteSets, TLC

VARIABLES
    pc,               \* position of the process (main / load_directory / chat_loop)
    rootAccessible,   \* environment: does the root directory exist and is it readable
    loads,            \* number of load_directory calls made so far
    pending,          \* entries of directory.glob('**/*') the walk has not visited yet
    documents,        \* self.documents: ordered dict path -> list of chunks
    embeddings,       \* self.embeddings: ordered dict path -> list of vectors
    query,            \* the query being served
    top_k,            \* the top_k of the last find_relevant_chunks call
    relevant_chunks,  \* result of the last find_relevant_chunks call
    context,          \* the context string assembled for the query
    response,         \* the value query_ollama returned for the query
    ollama_called,    \* was the generation backend called for the query
    backend,          \* how the backend answered the last request
    sources,          \* the source paths printed under the last response
    console,          \* what the last step printed on the console
    text,             \* chunker harness: the input text
    chunk_size,       \* chunker harness: the target size
    chunks            \* chunker harness: the returned chunk list

vars == <<pc, rootAccessible, loads, pending, documents, embeddings, query, top_k,
          relevant_chunks, context, response, ollama_called, backend, sources, console,
          text, chunk_size, chunks>>

toolVars == <<pc, rootAccessible, loads, pending, documents, embeddings, query, top_k,
              relevant_chunks, context, response, ollama_called, backend, sources, console>>

chunkerVars == <<text, chunk_size, chunks>>

----------------------------------------------------------------------------
(* Bounds *)

MaxTextLen == 5     \* longest text given to the chunker harness
MaxChunkSize == 6   \* largest target size given to the chunker harness
MaxLoads == 2       \* load_directory calls on one RAGTool
MaxTopK == 4        \* largest top_k of a direct find_relevant_chunks call

----------------------------------------------------------------------------
(* Text: str.split(), ' '.join(), str.lower() *)

Chars == {"a", "b", " "}

IsSpace(c) == c = " "

RECURSIVE SplitFrom(_, _, _)
SplitFrom(s, cur, acc) ==
    IF s = <<>>
    THEN IF cur = <<>> THEN acc ELSE Append(acc, cur)
    ELSE IF IsSpace(Head(s))
         THEN SplitFrom(Tail(s), <<>>, IF cur = <<>> THEN acc ELSE Append(acc, cur))
         ELSE SplitFrom(Tail(s), Append(cur, Head(s)), acc)

\* text.split(): the maximal runs of non-whitespace characters, in order
split(s) == SplitFrom(s, <<>>, <<>>)

RECURSIVE join(_)
\* ' '.join(words)
join(words) ==
    IF words = <<>> THEN <<>>
    ELSE IF Len(words) = 1 THEN words[1]
    ELSE words[1] \o <<" ">> \o join(Tail(words))

----------------------------------------------------------------------------
(* RAGTool._create_chunks *)

\* Mutant: the trailing partial chunk is dropped (the final flush is missing).
RECURSIVE ChunkLoopNoFinalFlush(_, _, _, _, _)
ChunkLoopNoFinalFlush(words, size, out, current_chunk, current_size) ==
    IF words = <<>>
    THEN out
    ELSE LET cc == Append(current_chunk, Head(words))
             cs == current_size + Len(Head(words)) + 1
         IN  IF cs >= size
             THEN ChunkLoopNoFinalFlush(Tail(words), size, Append(out, join(cc)), <<>>, 0)
             ELSE ChunkLoopNoFinalFlush(Tail(words), size, out, cc, cs)

\* Mutant: the separator is counted twice, so a chunk is flushed too early.
RECURSIVE ChunkLoopFlushEarly(_, _, _, _, _)
ChunkLoopFlushEarly(words, size, out, current_chunk, current_size) ==
    IF words = <<>>
    THEN IF current_chunk # <<>> THEN Append(out, join(current_chunk)) ELSE out
    ELSE LET cc == Append(current_chunk, Head(words))
             cs == current_size + Len(Head(words)) + 2
         IN  IF cs >= size
             THEN ChunkLoopFlushEarly(Tail(words), size, Append(out, join(cc)), <<>>, 0)
             ELSE ChunkLoopFlushEarly(Tail(words), size, out, cc, cs)

RECURSIVE ChunkLoop(_, _, _, _, _)
\* the for loop over words and the final flush
ChunkLoop(words, size, out, current_chunk, current_size) ==
    IF words = <<>>
    THEN IF current_chunk # <<>> THEN Append(out, join(current_chunk)) ELSE out
    ELSE LET cc == Append(current_chunk, Head(words))
             cs == current_size + Len(Head(words)) + 1
         IN  IF cs >= size
             THEN ChunkLoop(Tail(words), size, Append(out, join(cc)), <<>>, 0)
             ELSE ChunkLoop(Tail(words), size, out, cc, cs)

_create_chunks(s, size) == ChunkLoop(split(s), size, <<>>, <<>>, 0)

----------------------------------------------------------------------------
(* The embedding model and cosine similarity (external collaborators) *)

RECURSIVE Count(_, _)
Count(s, c) ==
    IF s = <<>> THEN 0 ELSE (IF Head(s) = c THEN 1 ELSE 0) + Count(Tail(s), c)

\* self.embeddings_model.encode(s): a deterministic fixed-length vector of the
\* text; here the vector of character counts.
encode(s) == <<Count(s, "a"), Count(s, "b")>>

Dot(u, v) == u[1] * v[1] + u[2] * v[2]

\* cosine_similarity([u], [v])[0][0] = Dot(u,v) / (|u| * |v|), and 0 when a
\* norm is 0.  All components are >= 0, so the cosine is >= 0 and is
\* represented exactly by its square, the fraction num / den.
cosine_similarity(u, v) ==
    IF Dot(u, u) = 0 \/ Dot(v, v) = 0
    THEN [num |-> 0, den |-> 1]
    ELSE [num |-> Dot(u, v) * Dot(u, v), den |-> Dot(u, u) * Dot(v, v)]

\* x >= y and x = y on similarities
SimGE(x, y) == x.num * y.den >= y.num * x.den
SimEQ(x, y) == x.num * y.den = y.num * x.den

----------------------------------------------------------------------------
(* Python dicts: insertion-ordered, assignment to an existing key keeps its place *)

Keys(d) == {d[i].file_path : i \in 1..Len(d)}

Get(d, k) == d[CHOOSE i \in 1..Len(d) : d[i].file_path = k].value

Put(d, k, v) ==
    IF k \in Keys(d)
    THEN [i \in 1..Len(d) |->
            IF d[i].file_path = k THEN [file_path |-> k, value |-> v] ELSE d[i]]
    ELSE Append(d, [file_path |-> k, value |-> v])

----------------------------------------------------------------------------
(* RAGTool.find_relevant_chunks *)

RECURSIVE all_similarities(_, _)
\* the two nested loops over self.embeddings.items() and enumerate(file_embeddings)
all_similarities(items, query_embedding) ==
    IF items = <<>> THEN <<>>
    ELSE [i \in 1..Len(Head(items).value) |->
            [file_path  |-> Head(items).file_path,
             chunk_idx  |-> i - 1,
             similarity |-> cosine_similarity(query_embedding, Head(items).value[i])]]
         \o all_similarities(Tail(items), query_embedding)

InsertAt(s, k, x) == SubSeq(s, 1, k) \o <<x>> \o SubSeq(s, k + 1, Len(s))

\* Mutant: no sort at all.
SortUnsorted(s) == s

\* Mutant: an unstable descending sort (an element goes before its equals).
RECURSIVE SortUnstable(_)
SortUnstable(s) ==
    IF s = <<>> THEN <<>>
    ELSE LET rest == SortUnstable(SubSeq(s, 1, Len(s) - 1))
             x == s[Len(s)]
             k == Cardinality({i \in 1..Len(rest) :
                     SimGE(rest[i].similarity, x.similarity)
                     /\ ~SimEQ(rest[i].similarity, x.similarity)})
         IN  InsertAt(rest, k, x)

RECURSIVE SortDescending(_)
\* list.sort(key=similarity, reverse=True): descending, and stable (equal keys
\* keep their original order)
SortDescending(s) ==
    IF s = <<>> THEN <<>>
    ELSE LET rest == SortDescending(SubSeq(s, 1, Len(s) - 1))
             x == s[Len(s)]
             k == Cardinality({i \in 1..Len(rest) :
                     SimGE(rest[i].similarity, x.similarity)})
         IN  InsertAt(rest, k, x)

\* s[:k] of Python: the first k elements, and for k < 0 all but the last -k
Slice(s, k) ==
    LET n == IF k >= 0 THEN (IF k < Len(s) THEN k ELSE Len(s))
             ELSE (IF Len(s) + k > 0 THEN Len(s) + k ELSE 0)
    IN  SubSeq(s, 1, n)

find_relevant_chunks(q, k) ==
    Slice(SortDescending(all_similarities(embeddings, encode(q))), k)

----------------------------------------------------------------------------
(* The file system under the root directory and the text extraction *)

ChunkSize == 4   \* chunk_size=1000 of load_directory, scaled to the texts below

\* what directory.glob('**/*') yields when the root can be walked
Entries == {"a.txt", "b.md", "c.bin", ".env", "sub"}

is_file(p) == p # "sub"
IsHidden(p) == p = ".env"            \* file_path.name.startswith('.')
suffix(p) ==
    CASE p = "a.txt" -> ".txt"
      [] p = "b.md"  -> ".md"
      [] p = "c.bin" -> ".bin"
      [] OTHER       -> ""

SupportedSuffixes == {".pdf", ".md", ".txt", ".py", ".js", ".html", ".css", ".json"}

\* the text a supported file can yield (file.read(), or what the PDF / Markdown
\* extraction returns): whitespace only, one chunk, or two chunks at ChunkSize
FileTexts ==
    { <<" ">>,
      <<"a", " ", "b">>,
      <<"b", " ", "a", " ", "a">>,
      <<"a", " ", "b", " ", "b", " ", "a">> }

\* directory.glob('**/*'): nothing when the root is missing or unreadable
Glob(accessible) == IF accessible THEN Entries ELSE {}

\* _parse_file: [content, printed]; data is what the reader yields, readOk
\* whether open / read / extraction raised nothing
_parse_file(p, data, readOk) ==
    IF suffix(p) \in SupportedSuffixes
    THEN IF readOk
         THEN [content |-> data, printed |-> <<>>]
         ELSE [content |-> <<>>, printed |-> <<"Error reading">>]
    ELSE [content |-> <<>>, printed |-> <<"Unsupported file type">>]

----------------------------------------------------------------------------
(* main and RAGTool.load_directory *)

ToolInit ==
    /\ pc = "main"
    /\ rootAccessible \in BOOLEAN
    /\ loads = 0
    /\ pending = {}
    /\ documents = <<>>
    /\ embeddings = <<>>
    /\ query = <<>>
    /\ top_k = 0
    /\ relevant_chunks = <<>>
    /\ context = <<>>
    /\ response = ""
    /\ ollama_called = FALSE
    /\ backend = "none"
    /\ sources = {}
    /\ console = <<>>

ChunkerIdle ==
    /\ text = <<>>
    /\ chunk_size = 0
    /\ chunks = <<>>

\* main(): RAGTool(args.model), then load_directory(Path(args.directory));
\* or a further load_directory call on the same RAGTool (re-indexing)
LoadDirectory ==
    /\ \/ pc = "main"
       \/ pc = "loaded" /\ loads < MaxLoads
    /\ pc' = "indexing"
    /\ loads' = loads + 1
    /\ pending' = Glob(rootAccessible)
    /\ console' = <<"Loading files">>
    /\ UNCHANGED <<rootAccessible, documents, embeddings, query, top_k,
                   relevant_chunks, context, response, ollama_called, backend, sources, chunkerVars>>

\* one iteration of the for loop whose if is false: a directory or a hidden file
SkipEntry(p) ==
    /\ pc = "indexing"
    /\ p \in pending
    /\ ~(is_file(p) /\ ~IsHidden(p))
    /\ pending' = pending \ {p}
    /\ console' = <<>>
    /\ UNCHANGED <<pc, rootAccessible, loads, documents, embeddings, query, top_k,
                   relevant_chunks, context, response, ollama_called, backend, sources, chunkerVars>>

\* lines 40-49: self.documents[path] = chunks, then the list comprehension of
\* encode calls; when one of them raises, self.embeddings[path] is not assigned
Store(p, cks, encodeRaises) ==
    IF encodeRaises
    THEN [documents |-> Put(documents, p, cks), embeddings |-> embeddings,
          printed |-> <<"Error processing">>]
    ELSE [documents  |-> Put(documents, p, cks),
          embeddings |-> Put(embeddings, p, [i \in 1..Len(cks) |-> encode(cks[i])]),
          printed    |-> <<"Processed">>]

\* one iteration of the for loop on a regular, non-hidden file
ProcessFile(p, data, readOk, encodeRaises) ==
    /\ pc = "indexing"
    /\ p \in pending
    /\ is_file(p) /\ ~IsHidden(p)
    /\ LET parsed == _parse_file(p, data, readOk)
           cks == _create_chunks(parsed.content, ChunkSize)
       IN  /\ encodeRaises => cks # <<>>      \* encode is called once per chunk
           /\ LET st == Store(p, cks, encodeRaises)
              IN  /\ documents' = st.documents
                  /\ embeddings' = st.embeddings
                  /\ console' = parsed.printed \o st.printed
    /\ pending' = pending \ {p}
    /\ UNCHANGED <<pc, rootAccessible, loads, query, top_k,
                   relevant_chunks, context, response, ollama_called, backend, sources, chunkerVars>>

\* the for loop is exhausted: load_directory returns
LoadDirectoryReturn ==
    /\ pc = "indexing"
    /\ pending = {}
    /\ pc' = "loaded"
    /\ console' = <<>>
    /\ UNCHANGED <<rootAccessible, loads, pending, documents, embeddings, query, top_k,
                   relevant_chunks, context, response, ollama_called, backend, sources, chunkerVars>>

----------------------------------------------------------------------------
(* Direct calls of find_relevant_chunks on the loaded RAGTool *)

ExitWord == <<"e", "x", "i", "t">>

Queries == { <<"a">>, <<"b", " ", "a">>, ExitWord, <<"E", "x", "i", "t">> }

TopKs == (-1)..MaxTopK

FindRelevantChunksCall(q, k) ==
    /\ pc = "loaded"
    /\ pc' = "returned"
    /\ query' = q
    /\ top_k' = k
    /\ relevant_chunks' = find_relevant_chunks(q, k)
    /\ console' = <<>>
    /\ UNCHANGED <<rootAccessible, loads, pending, documents, embeddings,
                   context, response, ollama_called, backend, sources, chunkerVars>>

\* the caller takes the returned list; the call's frame is gone
FindRelevantChunksReturn ==
    /\ pc = "returned"
    /\ pc' = "loaded"
    /\ query' = <<>>
    /\ top_k' = 0
    /\ relevant_chunks' = <<>>
    /\ UNCHANGED <<rootAccessible, loads, pending, documents, embeddings,
                   context, response, ollama_called, backend, sources, console, chunkerVars>>

----------------------------------------------------------------------------
(* RAGTool.query_ollama and RAGTool.chat_loop *)

DefaultTopK == 3

\* str.lower() on the characters a query is made of
LowerChar(c) ==
    CASE c = "E" -> "e"
      [] c = "X" -> "x"
      [] c = "I" -> "i"
      [] c = "T" -> "t"
      [] OTHER   -> c

lower(s) == [i \in 1..Len(s) |-> LowerChar(s[i])]

\* how the request to the generation backend can end: a response with a
\* 'response' field, requests.post raising (backend unreachable),
\* raise_for_status raising (HTTP error), or a body without the field
BackendOutcomes == {"ok", "unreachable", "http_error", "bad_body"}

ErrorString(outcome) ==
    CASE outcome = "unreachable" -> "Error querying Ollama: connection refused"
      [] outcome = "http_error"  -> "Error querying Ollama: HTTP error"
      [] OTHER                   -> "Error querying Ollama: 'response'"

ErrorStrings == {ErrorString(o) : o \in BackendOutcomes \ {"ok"}}

\* Mutant: no try / except around the request.
query_ollama_unguarded(outcome) ==
    IF outcome = "ok"
    THEN [raised |-> FALSE, value |-> "answer"]
    ELSE [raised |-> TRUE, value |-> ""]

\* query_ollama: every Exception of the request is caught and turned into a string
query_ollama(outcome) ==
    IF outcome = "ok"
    THEN [raised |-> FALSE, value |-> "answer"]
    ELSE [raised |-> FALSE, value |-> ErrorString(outcome)]

\* Mutant: the empty result is not tested.
NoRelevantChunksNever(rc) == FALSE

\* `if not relevant_chunks`
NoRelevantChunks(rc) == rc = <<>>

\* self.documents[chunk['file_path']][chunk['chunk_idx']] raises nothing
LookupOk(r) ==
    /\ r.file_path \in Keys(documents)
    /\ r.chunk_idx + 1 \in 1..Len(Get(documents, r.file_path))

RECURSIVE JoinContext(_)
\* "\n\n".join(parts)
JoinContext(parts) ==
    IF parts = <<>> THEN <<>>
    ELSE IF Len(parts) = 1 THEN parts[1]
    ELSE parts[1] \o <<"\n", "\n">> \o JoinContext(Tail(parts))

\* main() calls chat_loop after load_directory
ChatLoopStart ==
    /\ pc = "loaded"
    /\ pc' = "ready"
    /\ console' = <<"Starting chat session">>
    /\ UNCHANGED <<rootAccessible, loads, pending, documents, embeddings, query, top_k,
                   relevant_chunks, context, response, ollama_called, backend, sources, chunkerVars>>

\* Prompt.ask returns 'exit' in any case: the loop breaks and main returns
Exit(q) ==
    /\ pc = "ready"
    /\ lower(q) = ExitWord
    /\ pc' = "exited"
    /\ query' = q
    /\ console' = <<>>
    /\ UNCHANGED <<rootAccessible, loads, pending, documents, embeddings, top_k,
                   relevant_chunks, context, response, ollama_called, backend, sources, chunkerVars>>

\* Prompt.ask returns a query: relevant_chunks = self.find_relevant_chunks(query)
Ask(q) ==
    /\ pc = "ready"
    /\ lower(q) # ExitWord
    /\ pc' = "retrieved"
    /\ query' = q
    /\ top_k' = DefaultTopK
    /\ relevant_chunks' = find_relevant_chunks(q, DefaultTopK)
    /\ context' = <<>>
    /\ response' = ""
    /\ ollama_called' = FALSE
    /\ backend' = "none"
    /\ sources' = {}
    /\ console' = <<>>
    /\ UNCHANGED <<rootAccessible, loads, pending, documents, embeddings, chunkerVars>>

\* nothing retrieved: print and continue
NoResults ==
    /\ pc = "retrieved"
    /\ NoRelevantChunks(relevant_chunks)
    /\ pc' = "ready"
    /\ console' = <<"No relevant information found.">>
    /\ UNCHANGED <<rootAccessible, loads, pending, documents, embeddings, query, top_k,
                   relevant_chunks, context, response, ollama_called, backend, sources, chunkerVars>>

\* the context is joined from the chunks the results name; a failing lookup
\* raises out of chat_loop and main
AssembleContext ==
    /\ pc = "retrieved"
    /\ ~NoRelevantChunks(relevant_chunks)
    /\ IF \A i \in 1..Len(relevant_chunks) : LookupOk(relevant_chunks[i])
       THEN /\ context' = JoinContext([i \in 1..Len(relevant_chunks) |->
                             Get(documents, relevant_chunks[i].file_path)
                                 [relevant_chunks[i].chunk_idx + 1]])
            /\ pc' = "generating"
            /\ console' = <<>>
       ELSE /\ context' = context
            /\ pc' = "crashed"
            /\ console' = <<"Traceback">>
    /\ UNCHANGED <<rootAccessible, loads, pending, documents, embeddings, query, top_k,
                   relevant_chunks, response, ollama_called, backend, sources, chunkerVars>>

\* response = self.query_ollama(query, context), then the prints
QueryOllama(outcome) ==
    /\ pc = "generating"
    /\ ollama_called' = TRUE
    /\ backend' = outcome
    /\ LET r == query_ollama(outcome)
       IN  IF r.raised
           THEN /\ pc' = "crashed"
                /\ console' = <<"Traceback">>
                /\ UNCHANGED <<response, sources>>
           ELSE /\ pc' = "ready"
                /\ response' = r.value
                /\ console' = <<"Response:", r.value, "Sources:">>
                /\ sources' = {relevant_chunks[i].file_path : i \in 1..Len(relevant_chunks)}
    /\ UNCHANGED <<rootAccessible, loads, pending, documents, embeddings, query, top_k,
                   relevant_chunks, context, chunkerVars>>

\* the status the process ends with: 0 when main returns, 1 when an exception
\* leaves main, -1 while it runs
ExitStatus ==
    IF pc = "exited" THEN 0 ELSE IF pc = "crashed" THEN 1 ELSE -1

----------------------------------------------------------------------------
(* Specifications *)

Init == ToolInit /\ ChunkerIdle

Next ==
    \/ LoadDirectory
    \/ \E p \in Entries : SkipEntry(p)
    \/ \E p \in Entries, data \in FileTexts, readOk \in BOOLEAN, encodeRaises \in BOOLEAN :
          ProcessFile(p, data, readOk, encodeRaises)
    \/ LoadDirectoryReturn
    \/ \E q \in Queries, k \in TopKs : FindRelevantChunksCall(q, k)
    \/ FindRelevantChunksReturn
    \/ ChatLoopStart
    \/ \E q \in Queries : Exit(q)
    \/ \E q \in Queries : Ask(q)
    \/ NoResults
    \/ AssembleContext
    \/ \E outcome \in BackendOutcomes : QueryOllama(outcome)

Spec == Init /\ [][Next]_vars

\* the chunker on its own: every text up to MaxTextLen, every target size
Texts == UNION {[1..n -> Chars] : n \in 0..MaxTextLen}

ChunkSizes == (-1)..MaxChunkSize

InitChunker ==
    /\ pc = "chunker_call"
    /\ rootAccessible = FALSE
    /\ loads = 0
    /\ pending = {}
    /\ documents = <<>>
    /\ embeddings = <<>>
    /\ query = <<>>
    /\ top_k = 0
    /\ relevant_chunks = <<>>
    /\ context = <<>>
    /\ response = ""
    /\ ollama_called = FALSE
    /\ backend = "none"
    /\ sources = {}
    /\ console = <<>>
    /\ text \in Texts
    /\ chunk_size \in ChunkSizes
    /\ chunks = <<>>

CallCreateChunks ==
    /\ pc = "chunker_call"
    /\ pc' = "chunker_return"
    /\ chunks' = _create_chunks(text, chunk_size)
    /\ UNCHANGED <<text, chunk_size, rootAccessible, loads, pending, documents,
                   embeddings, query, top_k, relevant_chunks, context, response,
                   ollama_called, backend, sources, console>>

NextChunker == CallCreateChunks

SpecChunker == InitChunker /\ [][NextChunker]_vars

----------------------------------------------------------------------------
(* Properties *)

RECURSIVE TotalLen(_)
\* the number of list elements a dict holds over all its keys
TotalLen(d) == IF d = <<>> THEN 0 ELSE Len(Head(d).value) + TotalLen(Tail(d))

RECURSIVE Flatten(_)
Flatten(ss) == IF ss = <<>> THEN <<>> ELSE Head(ss) \o Flatten(Tail(ss))

Retrieved == pc \in {"retrieved", "returned"}

SortedDescending(rc) ==
    \A i \in 1..(Len(rc) - 1) : SimGE(rc[i].similarity, rc[i + 1].similarity)

\* C1: every document path of the Corpus has an embedding list of the length
\* of its chunk list, embedding i being the embedding of chunk i, in every
\* state during and after load_directory.
C1_ChunksAndEmbeddingsAligned ==
    \A p \in Keys(documents) :
        /\ p \in Keys(embeddings)
        /\ Len(Get(embeddings, p)) = Len(Get(documents, p))
        /\ \A i \in 1..Len(Get(documents, p)) :
              Get(embeddings, p)[i] = encode(Get(documents, p)[i])

\* C2: once load_directory has returned, no document path maps to an empty
\* chunk list (unsupported, unreadable and blank files are not in the Corpus).
C2_NoEmptyDocument ==
    pc = "loaded" => \A p \in Keys(documents) : Get(documents, p) # <<>>

C4_TokensPreserved ==
    (pc = "chunker_return" /\ text # <<>>) =>
        /\ Flatten([i \in 1..Len(chunks) |-> split(chunks[i])]) = split(text)
        /\ \A i \in 1..Len(chunks) : chunks[i] # <<>>

\* a text of three tokens or more that was cut into several chunks, the last
\* one flushed after the loop
C4_Witness ==
    /\ pc = "chunker_return"
    /\ Len(split(text)) >= 3
    /\ Len(chunks) >= 2
    /\ Len(chunks[Len(chunks)]) + 1 < chunk_size

\* C5: when retrieval returned nothing, the next step of the loop tells the
\* user so, does not call the generation backend and awaits the next query.
C5_EmptyRetrievalSkipsGeneration ==
    [][(pc = "retrieved" /\ relevant_chunks = <<>>) =>
          /\ pc' = "ready"
          /\ console' = <<"No relevant information found.">>
          /\ ollama_called' = FALSE
          /\ backend' = "none"
          /\ response' = ""]_vars

\* the loop awaits a query after a query that retrieved nothing
C5_Witness ==
    /\ pc = "ready"
    /\ query # <<>>
    /\ relevant_chunks = <<>>
    /\ console = <<"No relevant information found.">>
    /\ ~ollama_called

\* C6: when the request to the backend fails, query_ollama returns an
\* error-marked string, the loop prints it as the response, the Corpus is
\* unchanged and the loop awaits the next query.
C6_BackendFailureIsInline ==
    [][(pc = "generating" /\ backend' # "ok") =>
          /\ response' \in ErrorStrings
          /\ console' = <<"Response:", response', "Sources:">>
          /\ pc' = "ready"
          /\ documents' = documents
          /\ embeddings' = embeddings]_vars

\* the loop awaits a query after the backend was unreachable
C6_Witness ==
    /\ pc = "ready"
    /\ ollama_called
    /\ backend = "unreachable"
    /\ response = "Error querying Ollama: connection refused"
    /\ embeddings # <<>>

\* C7: with an inaccessible root directory the process ends with a non-zero
\* status from indexing; it never awaits or serves a query and never exits
\* with status 0.
C7_InaccessibleRootIsFatal ==
    ~rootAccessible =>
        /\ pc \notin {"ready", "retrieved", "generating"}
        /\ ExitStatus # 0

\* C8 as stated: a non-empty text and a target size of at least its length
\* give exactly one chunk.
C8_OneChunkForNonEmptyText ==
    (pc = "chunker_return" /\ text # <<>> /\ chunk_size >= Len(text)) =>
        Len(chunks) = 1

\* C8 amended: a text with at least one token and a target size of at least
\* its length give exactly one chunk.
C8_OneChunkForTextWithToken ==
    (pc = "chunker_return" /\ split(text) # <<>> /\ chunk_size >= Len(text)) =>
        Len(chunks) = 1

\* several tokens, the target size exactly the length of the text
C8_Witness ==
    /\ pc = "chunker_return"
    /\ Len(split(text)) >= 2
    /\ chunk_size = Len(text)
    /\ Len(chunks) = 1

\* encounter order: documents in the order of self.embeddings, then chunk index
KeyPos(p) == CHOOSE i \in 1..Len(embeddings) : embeddings[i].file_path = p

Before(p1, i1, p2, i2) ==
    \/ KeyPos(p1) < KeyPos(p2)
    \/ p1 = p2 /\ i1 < i2

Returned(p, i) ==
    \E j \in 1..Len(relevant_chunks) :
        relevant_chunks[j].file_path = p /\ relevant_chunks[j].chunk_idx = i

\* C9: results of equal similarity are in encounter order, and a chunk left
\* out of the result comes after every returned chunk of equal similarity.
C9_TiesKeepEncounterOrder ==
    Retrieved =>
        /\ \A i, j \in 1..Len(relevant_chunks) :
              (i < j /\ SimEQ(relevant_chunks[i].similarity, relevant_chunks[j].similarity))
                  => Before(relevant_chunks[i].file_path, relevant_chunks[i].chunk_idx,
                            relevant_chunks[j].file_path, relevant_chunks[j].chunk_idx)
        /\ \A j \in 1..Len(relevant_chunks), p \in Keys(embeddings) :
              \A i \in 0..(Len(Get(embeddings, p)) - 1) :
                  (/\ ~Returned(p, i)
                   /\ SimEQ(relevant_chunks[j].similarity,
                            cosine_similarity(encode(query), Get(embeddings, p)[i + 1])))
                      => Before(relevant_chunks[j].file_path, relevant_chunks[j].chunk_idx, p, i)

\* two returned chunks of different documents tie, and a third chunk tied with
\* them was cut off by top_k
C9_Witness ==
    /\ Retrieved
    /\ top_k >= 2
    /\ Len(relevant_chunks) >= 2
    /\ relevant_chunks[Len(relevant_chunks)].similarity.num > 0
    /\ LET n == Len(relevant_chunks)
       IN  /\ SimEQ(relevant_chunks[n - 1].similarity, relevant_chunks[n].similarity)
           /\ relevant_chunks[n - 1].file_path # relevant_chunks[n].file_path
           /\ \E p \in Keys(embeddings) :
                 \E i \in 0..(Len(Get(embeddings, p)) - 1) :
                     /\ ~Returned(p, i)
                     /\ SimEQ(relevant_chunks[n].similarity,
                              cosine_similarity(encode(query), Get(embeddings, p)[i + 1]))

\* C10: every result of find_relevant_chunks names a key of documents and a
\* valid index of its chunk list, so the context lookup of chat_loop never fails.
C10_ResultsReferToChunks ==
    /\ Retrieved => \A i \in 1..Len(relevant_chunks) : LookupOk(relevant_chunks[i])
    /\ pc # "crashed"

====
